---- MODULE Spec2Model ----
(***************************************************************************)
(* ELD log generation (eld/utils.py, ELDLogGenerator) and the view that    *)
(* drives it (api/views.py, PlanTripView.post).                            *)
(*                                                                         *)
(* Time is counted in seconds.  A datetime is the number of seconds since  *)
(* midnight of the run's start date, so its date is t \div 86400 (a day    *)
(* offset from the start date), and its hour, minute and second follow by  *)
(* division.  Durations (hours, floats in the source) are seconds too: the *)
(* routing provider's durations are rounded to 0.01 h = 36 s.              *)
(***************************************************************************)
EXTENDS Integers, Sequences, FiniteSets, TLC

VARIABLES
    pc,                 \* position in PlanTripView.post / generate_log_sheets
    today,              \* weekday of datetime.now(), Monday = 0
    current_cycle_used, \* self.current_cycle_used (seconds)
    coords,             \* results of the get_coordinates calls so far
    legs,               \* results of the get_route_leg calls so far
    route_details,      \* self.route_details: <<>> is None, <<r>> is set
    calls,              \* the collaborator calls made, in order
    log_sheets,         \* self.log_sheets
    day_log,            \* generate_log_sheets' local day_log
    current_time,       \* generate_log_sheets' local current_time
    remaining_cycle,    \* generate_log_sheets' local remaining_cycle
    fuel_stops,         \* generate_log_sheets' local fuel_stops
    i,                  \* index of the segment loop, line 115
    drive_time,         \* _add_driving's local drive_time
    painted,            \* the grid indices the last _add_event assigned
    returned,           \* log_sheets of each return of generate_log_sheets
    error,              \* the exception raised, <<>> when none
    trips,              \* Trip rows
    logsheet_rows,      \* LogSheet rows
    response            \* the Response of post, <<>> before it returns

vars == <<pc, today, current_cycle_used, coords, legs, route_details, calls,
          log_sheets, day_log, current_time, remaining_cycle, fuel_stops, i,
          drive_time, painted, returned, error, trips, logsheet_rows, response>>

(***************************************************************************)
(* Bounds of the inputs the routing provider and the request supply.       *)
(***************************************************************************)
MaxLeg1Steps == 3
MaxLeg2Steps == 5
MaxDistanceSteps == 3
MaxDays == 16

(***************************************************************************)
(* datetime                                                                *)
(***************************************************************************)
SecondsPerMinute == 60
SecondsPerHour == 60 * SecondsPerMinute
SecondsPerDay == 24 * SecondsPerHour
Hours(h) == h * SecondsPerHour

Date(t) == t \div SecondsPerDay
Hour(t) == (t % SecondsPerDay) \div SecondsPerHour
Minute(t) == (t % SecondsPerHour) \div SecondsPerMinute
\* t.replace(hour=h, minute=0): second (and microsecond) are kept
ReplaceHourMinute(t, h) == Date(t) * SecondsPerDay + Hours(h) + (t % SecondsPerMinute)
\* t.weekday(), Monday = 0
Weekday(t) == (today + Date(t)) % 7
\* t.strftime('%H:%M')
StrfHM(t) == [hour |-> Hour(t), minute |-> Minute(t)]

Min(a, b) == IF a <= b THEN a ELSE b
Max(a, b) == IF a >= b THEN a ELSE b
RECURSIVE MinOf(_)
MinOf(s) == IF Len(s) = 1 THEN s[1] ELSE Min(s[1], MinOf(Tail(s)))

(***************************************************************************)
(* ELDLogGenerator.__init__: the HOS constants                             *)
(***************************************************************************)
max_drive_hours == 11
max_on_duty_hours == 14
min_rest_hours == 10
max_cycle_hours == 70
fuel_interval == 1000
fuel_time == SecondsPerHour \div 2
pickup_dropoff_time == 1

None == <<>>

GridSize == 96

\* mutant: a grid one slot short
_init_day_log_Short(date) ==
    [date   |-> date,
     grid   |-> [k \in 0..(GridSize - 2) |-> "OFF"],
     events |-> <<>>,
     totals |-> [driving |-> 0, on_duty |-> 0, off_duty |-> 0, sleeper |-> 0]]

_init_day_log(date) ==
    [date   |-> date,
     grid   |-> [k \in 0..(GridSize - 1) |-> "OFF"],
     events |-> <<>>,
     totals |-> [driving |-> 0, on_duty |-> 0, off_duty |-> 0, sleeper |-> 0]]

\* the placeholder of day_log before generate_log_sheets assigns it
NoDayLog == [date |-> 0, grid |-> <<>>, events |-> <<>>,
             totals |-> [driving |-> 0, on_duty |-> 0, off_duty |-> 0, sleeper |-> 0]]

\* mutant: the day log overwrites the last finalized one
_finalize_day_Overwrite(sheets, log) ==
    IF sheets = <<>> THEN <<log>> ELSE [sheets EXCEPT ![Len(sheets)] = log]

_finalize_day(sheets, log) == Append(sheets, log)

StatusCode(status) ==
    CASE status = "Driving" -> "D"
      [] status = "On duty" -> "ON"
      [] status = "Off duty" -> "OFF"
      [] status = "Sleeper berth" -> "SB"

\* mutant: on-duty time is added to the off-duty total
TotalKey_OnDutyAsOffDuty(status) ==
    CASE status = "Sleeper berth" -> "sleeper"
      [] status = "Driving" -> "driving"
      [] status = "On duty" -> "off_duty"
      [] status = "Off duty" -> "off_duty"

TotalKey(status) ==
    CASE status = "Sleeper berth" -> "sleeper"
      [] status = "Driving" -> "driving"
      [] status = "On duty" -> "on_duty"
      [] status = "Off duty" -> "off_duty"

\* mutant: the minutes are dropped from the slot index
SlotIndex_HourOnly(t) == Hour(t) * 4

SlotIndex(t) == (Hour(t) * 4) + (Minute(t) \div 15)
PaintRange(start_idx, end_idx) == start_idx..(Min(end_idx, GridSize) - 1)

MakeEvent(status, start_time, end_time, duration, activity) ==
    LET event == [status |-> status, start |-> StrfHM(start_time),
                  end |-> StrfHM(end_time), duration |-> duration]
    IN  IF activity # None
        THEN [k \in DOMAIN event \cup {"activity"} |->
                 IF k = "activity" THEN activity[1] ELSE event[k]]
        ELSE event

\* mutant: the day boundary is never detected
CrossesDay_Never(start_time, duration) == FALSE

\* whether start_time + duration falls on a later date (line 135)
CrossesDay(start_time, duration) == Date(start_time + duration) > Date(start_time)

\* _add_event: the returned end_time and day_log, self.log_sheets after the
\* call, and the grid indices assigned
_add_event(sheets, log, status, start_time0, duration, activity) ==
    LET end_time0 == start_time0 + duration
        crossed == CrossesDay(start_time0, duration)
        sheets1 == IF crossed THEN _finalize_day(sheets, log) ELSE sheets
        log1 == IF crossed THEN _init_day_log(Date(end_time0)) ELSE log
        start_time == IF crossed THEN ReplaceHourMinute(end_time0, 8) ELSE start_time0
        end_time == IF crossed THEN start_time + duration ELSE end_time0
        event == MakeEvent(status, start_time, end_time, duration, activity)
        range == PaintRange(SlotIndex(start_time), SlotIndex(end_time))
        grid1 == [k \in range \cap DOMAIN log1.grid |-> StatusCode(status)] @@ log1.grid
        log2 == [log1 EXCEPT !.grid = grid1,
                             !.events = Append(@, event),
                             !.totals[TotalKey(status)] = @ + duration]
    IN  [end_time |-> end_time, day_log |-> log2, log_sheets |-> sheets1,
         painted |-> range]

(***************************************************************************)
(* The inputs: the validated request (serializers.py) and the answers of   *)
(* the routing provider.                                                   *)
(***************************************************************************)
\* FloatField(min_value=0, max_value=70): 0 h, 62.5 h and 70 h
CycleUsedChoices == {0, Hours(125) \div 2, Hours(max_cycle_hours)}

\* round(duration_hours, 2): multiples of 2.74 h, 0.01 h being 36 s;
\* distances in miles
LegDuration(k) == k * 274 * 36
\* and the splits of a 12 h drive into a first leg of 0, 1, 5, 11 or 12 h
\* and a second leg of the rest
SplitTotal == Hours(12)
SplitFirstLegs == {0, Hours(1), Hours(5), Hours(11), Hours(12)}
Leg1Choices ==
    {[distance |-> 500, duration |-> t] :
        t \in {LegDuration(k) : k \in 0..MaxLeg1Steps} \cup SplitFirstLegs}
Leg2Choices == {[distance |-> 1000 * d, duration |-> LegDuration(k)] :
                    d \in 0..MaxDistanceSteps, k \in 0..MaxLeg2Steps}
\* the second legs drawn after the first get_route_leg call answered `first`
Leg2ChoicesAfter(first) ==
    IF first = None THEN Leg2Choices
    ELSE (IF first[1].duration \in {LegDuration(k) : k \in 0..MaxLeg1Steps}
          THEN Leg2Choices ELSE {})
         \cup
         (IF first[1].duration \in SplitFirstLegs
          THEN {[distance |-> 1000 * d, duration |-> SplitTotal - first[1].duration] :
                   d \in 0..MaxDistanceSteps}
          ELSE {})

\* mutant: the number of fuel stops is rounded up
FuelStops_RoundUp(total_distance) ==
    Max(0, (total_distance + fuel_interval - 1) \div fuel_interval)

\* int(total_distance / self.fuel_interval), line 101
FuelStops(total_distance) == Max(0, total_distance \div fuel_interval)

\* leg2_time / (fuel_stops + 1) is a float division; the model draws the
\* second leg so that the quotient is a whole number of seconds
Divides(leg1, leg2) ==
    leg2.duration % (FuelStops(leg1.distance + leg2.distance) + 1) = 0

Init ==
    /\ pc = "generate"
    /\ today \in 0..6
    /\ current_cycle_used \in CycleUsedChoices
    /\ coords = <<>>
    /\ legs = <<>>
    /\ route_details = None
    /\ calls = <<>>
    /\ log_sheets = <<>>
    /\ day_log = NoDayLog
    /\ current_time = 0
    /\ remaining_cycle = 0
    /\ fuel_stops = 0
    /\ i = 0
    /\ drive_time = 0
    /\ painted = {}
    /\ returned = <<>>
    /\ error = None
    /\ trips = 0
    /\ logsheet_rows = <<>>
    /\ response = None

simVars == <<log_sheets, day_log, current_time, remaining_cycle, fuel_stops, i,
             drive_time, painted>>
viewVars == <<trips, logsheet_rows, response>>
routeVars == <<coords, legs, route_details, calls>>

(***************************************************************************)
(* generate_log_sheets, lines 95-97, and calculate_route                   *)
(***************************************************************************)
GenerateEntry ==
    /\ pc = "generate"
    /\ pc' = IF route_details = None THEN "geocode" ELSE "start"
    /\ coords' = IF route_details = None THEN <<>> ELSE coords
    /\ legs' = IF route_details = None THEN <<>> ELSE legs
    /\ UNCHANGED <<today, current_cycle_used, route_details, calls, simVars,
                   returned, error, viewVars>>

\* the provider's possible answers to the next get_coordinates call:
\* coordinates (TRUE) or None (FALSE); a repeated run is answered as the
\* first was
CoordinateAnswers == IF returned = <<>> THEN BOOLEAN ELSE {TRUE}

\* one get_coordinates call of lines 70-74
GetCoordinates ==
    /\ pc = "geocode"
    /\ Len(coords) < 3
    /\ \E found \in CoordinateAnswers : coords' = Append(coords, found)
    /\ calls' = Append(calls, "geocode")
    /\ UNCHANGED <<pc, today, current_cycle_used, legs, route_details, simVars,
                   returned, error, viewVars>>

\* mutant: the coordinates are not checked
CheckCoordinates_NoRaise ==
    /\ pc = "geocode"
    /\ Len(coords) = 3
    /\ pc' = "route_leg"
    /\ UNCHANGED <<today, current_cycle_used, coords, legs, route_details, calls,
                   log_sheets, day_log, current_time, remaining_cycle, fuel_stops,
                   i, drive_time, painted, returned, error, trips, logsheet_rows,
                   response>>

\* lines 75-76
CheckCoordinates ==
    /\ pc = "geocode"
    /\ Len(coords) = 3
    /\ IF \A k \in 1..3 : coords[k]
       THEN pc' = "route_leg" /\ error' = error
       ELSE pc' = "except" /\ error' = <<"Failed to geocode one or more locations">>
    /\ UNCHANGED <<today, current_cycle_used, routeVars, simVars, returned, viewVars>>

\* the provider's possible answers to the next get_route_leg call: a leg
\* (<<leg>>) or None; a repeated run is answered as the first was
RouteLegAnswers ==
    IF returned # <<>>
    THEN {<<returned[1].route_details.legs[Len(legs) + 1]>>}
    ELSE {None} \cup
         IF Len(legs) = 0
         THEN {<<leg>> : leg \in Leg1Choices}
         ELSE {<<leg>> : leg \in
                  {l \in Leg2ChoicesAfter(legs[1]) :
                      legs[1] # None => Divides(legs[1][1], l)}}

\* one get_route_leg call of lines 78-79
GetRouteLeg ==
    /\ pc = "route_leg"
    /\ Len(legs) < 2
    /\ \E answer \in RouteLegAnswers : legs' = Append(legs, answer)
    /\ calls' = Append(calls, "route_leg")
    /\ UNCHANGED <<pc, today, current_cycle_used, coords, route_details, simVars,
                   returned, error, viewVars>>

\* lines 80-92
BuildRoute ==
    /\ pc = "route_leg"
    /\ Len(legs) = 2
    /\ IF legs[1] # None /\ legs[2] # None
       THEN /\ route_details' =
                 <<[legs |-> <<legs[1][1], legs[2][1]>>,
                    total_distance |-> legs[1][1].distance + legs[2][1].distance,
                    total_duration |-> legs[1][1].duration + legs[2][1].duration]>>
            /\ pc' = "start"
            /\ error' = error
       ELSE /\ route_details' = route_details
            /\ pc' = "except"
            /\ error' = <<"Failed to calculate route">>
    /\ UNCHANGED <<today, current_cycle_used, coords, legs, calls, simVars,
                   returned, viewVars>>

(***************************************************************************)
(* generate_log_sheets, lines 99-123                                       *)
(***************************************************************************)
Route == route_details[1]
leg1_time == Route.legs[1].duration
leg2_time == Route.legs[2].duration
\* mutant: the second leg is divided by the number of fuel stops
time_per_segment_PerStop ==
    IF fuel_stops # 0 THEN leg2_time \div fuel_stops ELSE leg2_time

\* line 113
time_per_segment ==
    IF fuel_stops # 0 THEN leg2_time \div (fuel_stops + 1) ELSE leg2_time

\* lines 99-106
StartRun ==
    /\ pc = "start"
    /\ fuel_stops' = FuelStops(Route.total_distance)
    /\ current_time' = Hours(8)
    /\ remaining_cycle' = Hours(max_cycle_hours) - current_cycle_used
    /\ day_log' = _init_day_log(Date(Hours(8)))
    /\ pc' = "loading"
    /\ UNCHANGED <<today, current_cycle_used, routeVars, log_sheets, i, drive_time,
                   painted, returned, error, viewVars>>

\* the effect of one _add_event call on the run's state (\E over a
\* singleton names the call's result once)
Apply(r) ==
    \E v \in {r} :
        /\ current_time' = v.end_time
        /\ day_log' = v.day_log
        /\ log_sheets' = v.log_sheets
        /\ painted' = v.painted

\* line 108, and the entry of the _add_driving call of lines 109-110
Loading ==
    /\ pc = "loading"
    /\ Apply(_add_event(log_sheets, day_log, "On duty", current_time,
                        Hours(pickup_dropoff_time), <<"Loading">>))
    /\ drive_time' = leg1_time
    /\ pc' = "leg1"
    /\ UNCHANGED <<today, current_cycle_used, routeVars, remaining_cycle, fuel_stops,
                   i, returned, error, viewVars>>

\* mutant: the remaining cycle is left out of the minimum
Available_NoCycle(log, cycle, drive) ==
    MinOf(<<Hours(max_drive_hours) - log.totals.driving,
            Hours(max_on_duty_hours) - log.totals.on_duty, drive>>)

\* mutant: the daily driving budget is left out of the minimum
Available_NoDriveCap(log, cycle, drive) ==
    MinOf(<<Hours(max_on_duty_hours) - log.totals.on_duty, cycle, drive>>)

\* lines 160-162
Available(log, cycle, drive) ==
    MinOf(<<Hours(max_drive_hours) - log.totals.driving,
            Hours(max_on_duty_hours) - log.totals.on_duty,
            cycle, drive>>)

InDriving == pc \in {"leg1", "segment"}

\* _add_driving, lines 171-173: one iteration that drives
DriveStep ==
    /\ InDriving
    /\ drive_time > 0
    /\ \E available \in {Available(day_log, remaining_cycle, drive_time)} :
           /\ available > 0
           /\ Apply(_add_event(log_sheets, day_log, "Driving", current_time,
                               available, None))
           /\ drive_time' = drive_time - available
           /\ remaining_cycle' = remaining_cycle - available
    /\ UNCHANGED <<pc, today, current_cycle_used, routeVars, fuel_stops, i,
                   returned, error, viewVars>>

\* mutant: a rest that does not end on a Monday is deducted from the cycle
CycleAfterRest_RestDeducted(t, cycle) ==
    IF Weekday(t) = 0 THEN Hours(max_cycle_hours)
    ELSE Max(0, cycle - Hours(min_rest_hours))

\* mutant: the cycle is never restored
CycleAfterRest_NoReset(t, cycle) == cycle

\* mutant: the cycle is restored on Tuesdays
CycleAfterRest_Tuesday(t, cycle) ==
    IF Weekday(t) = 1 THEN Hours(max_cycle_hours) ELSE cycle

\* line 168
CycleAfterRest(t, cycle) ==
    IF Weekday(t) = 0 THEN Hours(max_cycle_hours) ELSE cycle

\* mutant: the clock is not advanced to the next day
NextMorning_SameDay(t) == ReplaceHourMinute(t, 8)

\* line 165
NextMorning(t) == ReplaceHourMinute(t, 8) + SecondsPerDay

\* _add_driving, lines 163-169: one iteration that inserts a rest
RestStep ==
    /\ InDriving
    /\ drive_time > 0
    /\ Available(day_log, remaining_cycle, drive_time) <= 0
    /\ Date(current_time) < MaxDays
    /\ \E start_time \in {NextMorning(current_time)} :
       \E r \in {_add_event(_finalize_day(log_sheets, day_log),
                             _init_day_log(Date(start_time)), "Sleeper berth",
                             start_time, Hours(min_rest_hours), None)} :
           /\ Apply(r)
           /\ remaining_cycle' = CycleAfterRest(r.end_time, remaining_cycle)
    /\ UNCHANGED <<pc, today, current_cycle_used, routeVars, fuel_stops, i,
                   drive_time, returned, error, viewVars>>

\* _add_driving returns (line 175) to line 112 or to line 117
DrivingReturns ==
    /\ InDriving
    /\ drive_time = 0
    /\ \/ /\ pc = "leg1"
          /\ i' = 0
          /\ drive_time' = time_per_segment
          /\ pc' = "segment"
       \/ /\ pc = "segment"
          /\ pc' = IF i < fuel_stops THEN "fueling" ELSE "unloading"
          /\ UNCHANGED <<i, drive_time>>
    /\ UNCHANGED <<today, current_cycle_used, routeVars, log_sheets, day_log,
                   current_time, remaining_cycle, fuel_stops, painted, returned,
                   error, viewVars>>

\* line 118, and the next iteration of the loop of line 115
Fueling ==
    /\ pc = "fueling"
    /\ Apply(_add_event(log_sheets, day_log, "On duty", current_time,
                        fuel_time, <<"Fueling">>))
    /\ i' = i + 1
    /\ drive_time' = time_per_segment
    /\ pc' = "segment"
    /\ UNCHANGED <<today, current_cycle_used, routeVars, remaining_cycle, fuel_stops,
                   returned, error, viewVars>>

\* lines 120-123
Unloading ==
    /\ pc = "unloading"
    /\ \E r \in {_add_event(log_sheets, day_log, "On duty", current_time,
                              Hours(pickup_dropoff_time), <<"Unloading">>)} :
       \E sheets \in {_finalize_day(r.log_sheets, r.day_log)} :
           /\ current_time' = r.end_time
           /\ day_log' = r.day_log
           /\ painted' = r.painted
           /\ log_sheets' = sheets
           /\ returned' = Append(returned, [route_details |-> Route,
                                            log_sheets |-> sheets])
    /\ pc' = "returned"
    /\ UNCHANGED <<today, current_cycle_used, routeVars, remaining_cycle, fuel_stops,
                   i, drive_time, error, viewVars>>

(***************************************************************************)
(* PlanTripView.post, lines 19-29                                          *)
(***************************************************************************)
PostCreated ==
    /\ pc = "returned"
    /\ \E trip_data \in {returned[Len(returned)]} :
          /\ trips' = trips + 1
          /\ logsheet_rows' = logsheet_rows \o
                [k \in 1..Len(trip_data.log_sheets) |->
                    [trip |-> trips + 1, date |-> trip_data.log_sheets[k].date,
                     log_data |-> trip_data.log_sheets[k]]]
          /\ response' = <<[status |-> 201, data |-> trip_data]>>
    /\ pc' = "done"
    /\ UNCHANGED <<today, current_cycle_used, routeVars, simVars, returned, error>>

PostExcept ==
    /\ pc = "except"
    /\ response' = <<[status |-> 400, data |-> [error |-> error[1]]]>>
    /\ pc' = "done"
    /\ UNCHANGED <<today, current_cycle_used, routeVars, simVars, returned, error,
                   trips, logsheet_rows>>

Next ==
    \/ GenerateEntry
    \/ GetCoordinates
    \/ CheckCoordinates
    \/ GetRouteLeg
    \/ BuildRoute
    \/ StartRun
    \/ Loading
    \/ DriveStep
    \/ RestStep
    \/ DrivingReturns
    \/ Fueling
    \/ Unloading
    \/ PostCreated
    \/ PostExcept

Spec == Init /\ [][Next]_vars

(***************************************************************************)
(* A caller that calls generate_log_sheets a second time with the same     *)
(* trip and the same starting clock.                                       *)
(***************************************************************************)
\* on the same ELDLogGenerator: its fields are as the first call left them
GenerateAgain ==
    /\ pc = "returned"
    /\ Len(returned) = 1
    /\ pc' = "generate"
    /\ UNCHANGED <<today, current_cycle_used, routeVars, simVars, returned, error,
                   viewVars>>

\* on a new ELDLogGenerator(trip_data): __init__, lines 10-15
GenerateOnNewInstance ==
    /\ pc = "returned"
    /\ Len(returned) = 1
    /\ route_details' = None
    /\ log_sheets' = <<>>
    /\ pc' = "generate"
    /\ UNCHANGED <<today, current_cycle_used, coords, legs, calls, day_log,
                   current_time, remaining_cycle, fuel_stops, i, drive_time,
                   painted, returned, error, viewVars>>

NextReuse == Next \/ GenerateAgain \/ GenerateOnNewInstance

SpecReuse == Init /\ [][NextReuse]_vars

\* generate_log_sheets never suspends: every enabled step is taken
FairSpec == Spec /\ WF_vars(Next)

(***************************************************************************)
(* Properties                                                              *)
(***************************************************************************)
\* a day log is under construction (lines 106-120)
InRun == pc \in {"loading", "leg1", "segment", "fueling", "unloading"}
\* the finalized day logs, followed by the one under construction
Logs == IF InRun THEN Append(log_sheets, day_log) ELSE log_sheets
HM(s) == s.hour * 60 + s.minute
SlotSeconds == SecondsPerDay \div GridSize
SlotCount(log, code) == Cardinality({k \in DOMAIN log.grid : log.grid[k] = code})
Abs(x) == IF x < 0 THEN -x ELSE x

\* C1: in every day log, finalized or under construction, the driving total
\* is at most 11 hours.
C1_DrivingAtMost11 ==
    \A k \in 1..Len(Logs) : Logs[k].totals.driving <= Hours(max_drive_hours)

\* a finalized day drove exactly 11 hours, and a finalized day was begun by
\* a Driving event re-anchored to 08:00
C1_Witness ==
    /\ \E k \in 1..Len(log_sheets) :
          log_sheets[k].totals.driving = Hours(max_drive_hours)
    /\ \E k \in 2..Len(log_sheets) :
          /\ log_sheets[k].events[1].status = "Driving"
          /\ log_sheets[k].totals.driving > 0

\* C2: in every day log, the driving total plus the on-duty total is at most
\* 14 hours.
C2_DrivingPlusOnDutyAtMost14 ==
    \A k \in 1..Len(Logs) :
        Logs[k].totals.driving + Logs[k].totals.on_duty <= Hours(max_on_duty_hours)

\* C3: a run that starts (line 99) returns (line 123).
C3_Terminates == (pc = "start") ~> (pc = "returned")

\* a run that began with the cycle used up and inserted rests has returned
C3_Witness ==
    /\ pc = "returned"
    /\ current_cycle_used = Hours(max_cycle_hours)
    /\ leg1_time > 0
    /\ \E k \in 1..Len(log_sheets) : log_sheets[k].totals.sleeper > 0

\* C4: remaining_cycle never exceeds 70 hours, and a step increases it only
\* when it is a rest insertion of _add_driving whose new day is a Monday,
\* which sets it to 70 hours.
C4_CycleOnlyResetOnMonday ==
    /\ [](remaining_cycle <= Hours(max_cycle_hours))
    /\ [][(pc # "start" /\ remaining_cycle' > remaining_cycle) =>
            /\ InDriving
            /\ drive_time > 0
            /\ Available(day_log, remaining_cycle, drive_time) <= 0
            /\ Date(current_time') = Date(current_time) + 1
            /\ Weekday(current_time') = 0
            /\ remaining_cycle' = Hours(max_cycle_hours)]_vars

\* a rest day that is a Monday has restored an exhausted cycle
C4_Witness ==
    /\ InDriving
    /\ current_cycle_used = Hours(max_cycle_hours)
    /\ Weekday(current_time) = 0
    /\ Len(day_log.events) = 1
    /\ day_log.events[1].status = "Sleeper berth"
    /\ remaining_cycle = Hours(max_cycle_hours)

\* C5: in every day log each event starts no earlier than the event before
\* it ends, and ends no earlier than it starts.
C5_EventsChronological ==
    \A k \in 1..Len(Logs) :
        \A j \in 1..Len(Logs[k].events) :
            LET e == Logs[k].events[j]
            IN  /\ HM(e.start) <= HM(e.end)
                /\ j > 1 => HM(Logs[k].events[j - 1].end) <= HM(e.start)

\* a finalized day that begins with a re-anchored Driving event and holds
\* three events or more
C5_Witness ==
    \E k \in 2..Len(log_sheets) :
        /\ Len(log_sheets[k].events) >= 3
        /\ log_sheets[k].events[1].status = "Driving"

\* C6: every grid has exactly the 96 entries 0..95, each of OFF, D, ON, SB,
\* and _add_event assigns no index outside 0..95.
C6_GridShape ==
    /\ \A k \in 1..Len(Logs) :
          /\ DOMAIN Logs[k].grid = 0..95
          /\ \A n \in DOMAIN Logs[k].grid : Logs[k].grid[n] \in {"OFF", "D", "ON", "SB"}
    /\ painted \subseteq 0..95

\* an event that ends in the last hour of the day has been painted
C6_Witness ==
    /\ InRun
    /\ \E n \in painted : n >= 92

\* C7 as stated: for each of the four statuses, the slots holding its code
\* times a quarter hour differ from the day's total by at most one slot.
C7_GridMatchesTotalsAllStatuses ==
    \A k \in 1..Len(log_sheets) :
        \A status \in {"Driving", "On duty", "Off duty", "Sleeper berth"} :
            Abs(SlotCount(log_sheets[k], StatusCode(status)) * SlotSeconds
                - log_sheets[k].totals[TotalKey(status)]) <= SlotSeconds

\* C7 amended: the same for Driving, On duty and Sleeper berth.
C7_GridMatchesTotals ==
    \A k \in 1..Len(Logs) :
        \A status \in {"Driving", "On duty", "Sleeper berth"} :
            Abs(SlotCount(Logs[k], StatusCode(status)) * SlotSeconds
                - Logs[k].totals[TotalKey(status)]) <= SlotSeconds

\* a finalized day whose driving total is not a whole number of slots and
\* whose on-duty and driving events alternate
C7_Witness ==
    \E k \in 1..Len(log_sheets) :
        /\ log_sheets[k].totals.driving % SlotSeconds # 0
        /\ SlotCount(log_sheets[k], "D") * SlotSeconds # log_sheets[k].totals.driving
        /\ Len(log_sheets[k].events) >= 5
        /\ log_sheets[k].totals.on_duty > 0

\* C8: the k-th finalized log is dated k - 1 days after the start date, and
\* while a day log is under construction the clock's date is its date, the
\* day after the last finalized log.
C8_OneLogPerDay ==
    /\ InRun \/ pc \in {"returned", "done"} =>
          \A k \in 1..Len(log_sheets) : log_sheets[k].date = k - 1
    /\ InRun => /\ Date(current_time) = day_log.date
                /\ day_log.date = Len(log_sheets)

\* a run that has returned four logs or more
C8_Witness ==
    /\ pc = "returned"
    /\ Len(log_sheets) >= 4

\* C9: two calls of generate_log_sheets that return the same route_details
\* return the same log_sheets.
C9_Idempotent ==
    (Len(returned) = 2 /\ returned[1].route_details = returned[2].route_details)
        => returned[1].log_sheets = returned[2].log_sheets

\* the second call was made on a new ELDLogGenerator
OnNewInstance == Len(returned) = 2 /\ Len(calls) = 10

\* the part of C9 that holds: a second call on a new ELDLogGenerator
\* returns the log_sheets of the first.
C9_IdempotentOnNewInstance ==
    OnNewInstance => returned[1].log_sheets = returned[2].log_sheets

\* C10: once a get_coordinates or get_route_leg call has returned None, no
\* day log is begun, log_sheets stays empty, nothing is returned, no Trip or
\* LogSheet row is created, no get_route_leg call follows a failed
\* get_coordinates call, and the response is a single error message.
GeocodeFailed == \E k \in 1..Len(coords) : ~coords[k]
RouteLegFailed == \E k \in 1..Len(legs) : legs[k] = None
C10_FailureStopsBeforeSimulation ==
    (GeocodeFailed \/ RouteLegFailed) =>
        /\ pc \in {"geocode", "route_leg", "except", "done"}
        /\ day_log = NoDayLog
        /\ log_sheets = <<>>
        /\ returned = <<>>
        /\ trips = 0
        /\ logsheet_rows = <<>>
        /\ GeocodeFailed => \A k \in 1..Len(calls) : calls[k] # "route_leg"
        /\ pc = "done" =>
              /\ response # None
              /\ response[1].status = 400
              /\ DOMAIN response[1].data = {"error"}
              /\ response[1].data.error \in
                    {"Failed to geocode one or more locations",
                     "Failed to calculate route"}

\* post has answered a request whose second get_route_leg call failed
C10_Witness ==
    /\ pc = "done"
    /\ Len(legs) = 2
    /\ legs[1] # None
    /\ legs[2] = None
    /\ response # None

(***************************************************************************)
(* Helpers over the emitted log sheets.                                    *)
(***************************************************************************)
RECURSIVE AllEvents(_)
\* the events of the sheets, in order
AllEvents(sheets) ==
    IF sheets = <<>> THEN <<>>
    ELSE sheets[1].events \o AllEvents(Tail(sheets))

RECURSIVE SumDuration(_)
SumDuration(events) ==
    IF events = <<>> THEN 0
    ELSE events[1].duration + SumDuration(Tail(events))

EventsOf(events, status) == SelectSeq(events, LAMBDA e : e.status = status)
TotalDriving == leg1_time + leg2_time

\* C11: a run with current_cycle_used = 0 and no fuel stops whose legs sum
\* to more than 11 h and at most 12 h returns exactly two log sheets, with
\* exactly one Sleeper berth event, of 10 h; day 1 drove exactly 11 h and
\* day 2 the remainder.
C11_TwelveHourScenario ==
    (/\ pc = "returned"
     /\ current_cycle_used = 0
     /\ fuel_stops = 0
     /\ TotalDriving > Hours(max_drive_hours)
     /\ TotalDriving <= SplitTotal)
    => /\ Len(log_sheets) = 2
       /\ EventsOf(AllEvents(log_sheets), "Sleeper berth")
             = <<[status |-> "Sleeper berth", start |-> [hour |-> 8, minute |-> 0],
                  end |-> [hour |-> 18, minute |-> 0],
                  duration |-> Hours(min_rest_hours)]>>
       /\ log_sheets[1].totals.driving = Hours(max_drive_hours)
       /\ log_sheets[2].totals.driving = TotalDriving - Hours(max_drive_hours)
       /\ log_sheets[1].totals.sleeper = 0
       /\ log_sheets[2].totals.sleeper = Hours(min_rest_hours)

\* the 12 h scenario returned, split as 5 h and 7 h
C11_Witness ==
    /\ pc = "returned"
    /\ current_cycle_used = 0
    /\ fuel_stops = 0
    /\ leg1_time = Hours(5)
    /\ leg2_time = Hours(7)
    /\ Len(log_sheets) = 2

Last(seq) == seq[Len(seq)]
\* a step that applies exactly one event, of the given status
Applied(status) ==
    /\ Len(AllEvents(Logs')) = Len(AllEvents(Logs)) + 1
    /\ Last(AllEvents(Logs')).status = status
AppliedDuration == Last(AllEvents(Logs')).duration

\* C12: a Driving event is applied only while remaining_cycle is positive
\* and lasts at most remaining_cycle, so remaining_cycle is never negative;
\* with current_cycle_used = 70 h a Sleeper berth event precedes every
\* Driving event and day 1's driving total is 0.
C12_DrivingWithinCycle ==
    /\ [][Applied("Driving") =>
            /\ remaining_cycle > 0
            /\ AppliedDuration <= remaining_cycle]_vars
    /\ []((InRun \/ pc = "returned") => remaining_cycle >= 0)
    /\ []((current_cycle_used = Hours(max_cycle_hours) /\ Logs # <<>>) =>
            /\ Logs[1].totals.driving = 0
            /\ \A k \in 1..Len(AllEvents(Logs)) :
                  AllEvents(Logs)[k].status = "Driving" =>
                     \E j \in 1..(k - 1) :
                        AllEvents(Logs)[j].status = "Sleeper berth")

\* a run that began with the cycle used up returned: day 1 did not drive,
\* a later day did
C12_Witness ==
    /\ pc = "returned"
    /\ current_cycle_used = Hours(max_cycle_hours)
    /\ TotalDriving > 0
    /\ log_sheets[1].totals.driving = 0
    /\ \E k \in 2..Len(log_sheets) : log_sheets[k].totals.driving > 0

IsFueling(e) ==
    /\ e.status = "On duty"
    /\ "activity" \in DOMAIN e
    /\ e.activity = "Fueling"

RECURSIVE DrivingUntilFueling(_, _)
\* the driving time recorded before the n-th Fueling event
DrivingUntilFueling(events, n) ==
    IF events = <<>> THEN 0
    ELSE IF IsFueling(events[1])
         THEN (IF n = 1 THEN 0 ELSE DrivingUntilFueling(Tail(events), n - 1))
         ELSE (IF events[1].status = "Driving" THEN events[1].duration ELSE 0)
              + DrivingUntilFueling(Tail(events), n)

\* C13: a returned run holds floor(total_distance / 1000) Fueling events,
\* each of 0.5 h; the n-th one follows the first leg and n equal segments
\* of the second leg, and one more segment is driven after the last one.
C13_FuelStopsAndSegments ==
    pc = "returned" =>
       \E events \in {AllEvents(log_sheets)} :
       \E stops \in {Route.total_distance \div fuel_interval} :
       \E segment \in {leg2_time \div (stops + 1)} :
          /\ segment * (stops + 1) = leg2_time
          /\ Len(SelectSeq(events, IsFueling)) = stops
          /\ \A k \in 1..Len(events) :
                IsFueling(events[k]) => events[k].duration = fuel_time
          /\ \A n \in 1..stops :
                DrivingUntilFueling(events, n) = leg1_time + (n * segment)
          /\ SumDuration(EventsOf(events, "Driving"))
                = leg1_time + ((stops + 1) * segment)
          /\ ~IsFueling(events[Len(events) - 1]) \/ segment = 0

\* a run with three fuel stops and a rest day returned
C13_Witness ==
    /\ pc = "returned"
    /\ fuel_stops = 3
    /\ leg1_time > 0
    /\ leg2_time > 0
    /\ Len(log_sheets) >= 2
    /\ Len(SelectSeq(AllEvents(log_sheets), IsFueling)) = 3

\* the clock of the first day, in seconds after its 08:00 start
Clock(s) == StrfHM(Hours(8) + s)

\* C14: a run without fuel stops whose legs are both positive and sum to at
\* most 11 h and at most the cycle left returns one log sheet: Loading 1 h,
\* Driving leg 1, Driving leg 2, Unloading 1 h, with totals driving = the
\* sum of the legs, on_duty = 2 h, off_duty = 0 and sleeper = 0.
C14_SingleDayTrip ==
    (/\ pc = "returned"
     /\ fuel_stops = 0
     /\ leg1_time > 0
     /\ leg2_time > 0
     /\ TotalDriving <= Hours(max_drive_hours)
     /\ TotalDriving <= Hours(max_cycle_hours) - current_cycle_used)
    => /\ Len(log_sheets) = 1
       /\ log_sheets[1].events =
            << [status |-> "On duty", start |-> Clock(0), end |-> Clock(Hours(1)),
                duration |-> Hours(1), activity |-> "Loading"],
               [status |-> "Driving", start |-> Clock(Hours(1)),
                end |-> Clock(Hours(1) + leg1_time), duration |-> leg1_time],
               [status |-> "Driving", start |-> Clock(Hours(1) + leg1_time),
                end |-> Clock(Hours(1) + TotalDriving), duration |-> leg2_time],
               [status |-> "On duty", start |-> Clock(Hours(1) + TotalDriving),
                end |-> Clock(Hours(2) + TotalDriving),
                duration |-> Hours(1), activity |-> "Unloading"] >>
       /\ log_sheets[1].totals =
            [driving |-> TotalDriving, on_duty |-> Hours(2),
             off_duty |-> 0, sleeper |-> 0]

\* a one-day trip returned with part of the cycle already used
C14_Witness ==
    /\ pc = "returned"
    /\ fuel_stops = 0
    /\ current_cycle_used > 0
    /\ leg1_time = LegDuration(1)
    /\ leg2_time = LegDuration(1)
    /\ Len(log_sheets) = 1
    /\ log_sheets[1].totals.driving = LegDuration(2)

\* a step that applies one event at current_time whose end falls on a later
\* date
Crossing ==
    /\ Len(AllEvents(Logs')) = Len(AllEvents(Logs)) + 1
    /\ Last(AllEvents(Logs')).status # "Sleeper berth"
    /\ Date(current_time + AppliedDuration) > Date(current_time)

ZeroTotals == [driving |-> 0, on_duty |-> 0, off_duty |-> 0, sleeper |-> 0]

\* C15: when an event's end falls on a later date, the current day log is
\* finalized as it was, a new day log is begun for the end's date, and the
\* event is its only event, from 08:00 to 08:00 + duration, with its whole
\* duration in the new day's totals; no recorded event spans two days.
C15_ReanchoredAtEight ==
    /\ [][Crossing =>
            /\ Len(Logs') = Len(Logs) + 1
            /\ \A k \in 1..Len(Logs) : Logs'[k] = Logs[k]
            /\ Last(Logs').date = Date(current_time + AppliedDuration)
            /\ Len(Last(Logs').events) = 1
            /\ Last(Logs').events[1].start = StrfHM(Hours(8))
            /\ Last(Logs').events[1].end = StrfHM(Hours(8) + AppliedDuration)
            /\ Last(Logs').totals =
                 [ZeroTotals EXCEPT
                    ![TotalKey(Last(Logs').events[1].status)] = AppliedDuration]
         ]_vars
    /\ [](\A k \in 1..Len(AllEvents(Logs)) :
             (HM(AllEvents(Logs)[k].start) * SecondsPerMinute)
                + AllEvents(Logs)[k].duration < SecondsPerDay)

\* the cycle is used up while driving time is outstanding
Exhausted == InDriving /\ drive_time > 0 /\ remaining_cycle = 0

RECURSIVE TrailingRests(_)
\* the number of Sleeper berth events at the end of the events
TrailingRests(events) ==
    IF events = <<>> \/ Last(events).status # "Sleeper berth" THEN 0
    ELSE 1 + TrailingRests(SubSeq(events, 1, Len(events) - 1))

\* C16 as stated: once remaining_cycle is 0 with driving time outstanding,
\* no later step restores it and the loop goes on resting.
C16_RestsForever ==
    [][Exhausted => (remaining_cycle' = 0 /\ drive_time' = drive_time)]_vars

\* C16, amended: with remaining_cycle at 0 and driving time outstanding,
\* each step is a 10 h rest that leaves the driving time as it is and the
\* cycle at 0 unless it ends on a Monday, which restores the cycle to 70 h;
\* at most six rests leave it at 0, and the cycle is always restored.
C16_RestsUntilMonday ==
    /\ [][Exhausted =>
            /\ Applied("Sleeper berth")
            /\ AppliedDuration = Hours(min_rest_hours)
            /\ drive_time' = drive_time
            /\ remaining_cycle' = IF Weekday(current_time') = 0
                                  THEN Hours(max_cycle_hours) ELSE 0]_vars
    /\ [](Exhausted => TrailingRests(AllEvents(Logs)) <= 6)
    /\ (Exhausted ~> (remaining_cycle = Hours(max_cycle_hours)))

\* six rest days in a row have left the cycle at 0
C16_Witness == Exhausted /\ TrailingRests(AllEvents(Logs)) = 6

RECURSIVE SumDrivingTotals(_)
\* the sum of totals.driving over the sheets
SumDrivingTotals(sheets) ==
    IF sheets = <<>> THEN 0
    ELSE sheets[1].totals.driving + SumDrivingTotals(Tail(sheets))

\* C17: when generate returns, the driving totals of the log sheets, and
\* the durations of the Driving events, sum to leg 1's duration plus
\* leg 2's.
C17_DrivingConserved ==
    pc = "returned" =>
       /\ SumDrivingTotals(log_sheets)
             = Route.legs[1].duration + Route.legs[2].duration
       /\ SumDuration(EventsOf(AllEvents(log_sheets), "Driving"))
             = Route.legs[1].duration + Route.legs[2].duration

\* a run with fuel stops, a rest and a Driving event moved to the next day
\* returned
C17_Witness ==
    /\ pc = "returned"
    /\ fuel_stops >= 2
    /\ Route.legs[1].duration > 0
    /\ Route.legs[1].duration + Route.legs[2].duration > Hours(max_drive_hours)
    /\ \E k \in 1..Len(log_sheets) : log_sheets[k].totals.sleeper > 0
    /\ \E k \in 2..Len(log_sheets) : log_sheets[k].events[1].status = "Driving"

\* C18: remaining_cycle decreases only in a step that applies a Driving
\* event, by exactly that event's duration, re-anchored or not; a step that
\* applies an On duty event, or a Sleeper berth event that does not end on
\* a Monday, leaves it unchanged.
C18_OnlyDrivingUsesCycle ==
    /\ [][(InRun /\ remaining_cycle' < remaining_cycle) => Applied("Driving")]_vars
    /\ [][Applied("Driving") =>
            remaining_cycle' = remaining_cycle - AppliedDuration]_vars
    /\ [][(InRun /\ Applied("On duty")) => remaining_cycle' = remaining_cycle]_vars
    /\ [][(Applied("Sleeper berth") /\ Weekday(current_time') # 0) =>
            remaining_cycle' = remaining_cycle]_vars

\* a run with fuel stops and a rest that met no Monday returned: the cycle
\* left is the initial one less the driving
C18_Witness ==
    /\ pc = "returned"
    /\ fuel_stops >= 1
    /\ TotalDriving > 0
    /\ \E k \in 1..Len(log_sheets) : log_sheets[k].totals.sleeper > 0
    /\ \E k \in 2..Len(log_sheets) : log_sheets[k].events[1].status # "Sleeper berth"
    /\ remaining_cycle = Hours(max_cycle_hours) - current_cycle_used - TotalDriving

\* C19: a finalized day log is never changed by a later step; a day log is
\* finalized as it stands when a rest or a day boundary ends it, the one
\* under construction when the run ends is finalized too, and no two
\* finalized logs are the same day.
C19_FinalizedLogsAreFrozen ==
    /\ [][/\ Len(log_sheets') >= Len(log_sheets)
          /\ \A k \in 1..Len(log_sheets) : log_sheets'[k] = log_sheets[k]]_vars
    /\ [][(InRun /\ Len(log_sheets') > Len(log_sheets)) =>
            /\ pc' # "returned" => log_sheets' = Append(log_sheets, day_log)
            /\ pc' = "returned" =>
                 /\ Len(AllEvents(log_sheets')) = Len(AllEvents(Logs)) + 1
                 /\ Last(Last(log_sheets').events).activity = "Unloading"]_vars
    /\ [](pc = "returned" => log_sheets # <<>>)
    /\ [](\A j, k \in 1..Len(Logs) : j < k => Logs[j].date < Logs[k].date)

\* a run returned whose Unloading event was moved to a day of its own,
\* after two other days had been finalized
C19_Witness ==
    /\ pc = "returned"
    /\ Len(log_sheets) >= 3
    /\ Len(Last(log_sheets).events) = 1
    /\ Last(log_sheets).events[1].status = "On duty"

====
